---- MODULE Spec2Model ----
(***************************************************************************)
(* Kanban task board of the Shebang dashboard server (src/web/server.py).  *)
(* The stored document kanban.json of the active project is the state; the *)
(* handlers add_kanban_task, move_kanban_task, update_kanban_task and the  *)
(* GET /api/kanban branch of handle_api_get are the actions.  Each handler *)
(* is one atomic step: main serves requests from a socketserver.TCPServer, *)
(* one at a time.  In Spec the document exists and parses: it is the one   *)
(* that create_project wrote, changed only by these handlers.              *)
(*                                                                         *)
(* A task is the JSON object the handler builds, with one more key, uid,   *)
(* that no handler reads: it tells apart two tasks whose fields are equal, *)
(* so that the properties can follow one task across requests.             *)
(***************************************************************************)
EXTENDS Naturals, Sequences, FiniteSets, TLC

VARIABLES
    kanban,   \* the stored document kanban.json: [lastUpdated, columns]
    clock,    \* the value datetime.now() returns (whole seconds)
    adds,     \* number of add_kanban_task requests handled so far
    req,      \* the last event: the request answered, [op, data]
    resp,     \* the response sent for req: [status, body]
    pre,      \* history: the stored state when req arrived
    stored,   \* history: uids of the tasks add_kanban_task put in a column
    fs,       \* the projects tree and the active-project pointer file
    server    \* the accept loop: connections waiting and handlers running

vars == <<kanban, clock, adds, req, resp, pre, stored, fs, server>>

----------------------------------------------------------------------------
(* Bounds of the model *)

MaxAdds == 2          \* add requests in one behaviour
MaxSec == 1           \* the clock runs over seconds 0..MaxSec

----------------------------------------------------------------------------
(* Python values *)

\* Python's None, as returned by dict.get for a missing key.
None == "<None>"

\* Truth value of a str-or-None, as tested by `not task_id`.
Truthy(v) == v # None /\ v # ""

\* A JSON object with no keys.
EmptyDict == [k \in {} |-> ""]

\* dict.get(key, default)
Get(d, key, default) == IF key \in DOMAIN d THEN d[key] ELSE default

\* Variant of Update: keys the task already has keep their value
\* (the behaviour of setdefault).
Update_KeepsExisting(d, updates) ==
    [k \in (DOMAIN d) \cup (DOMAIN updates) |->
        IF k \in DOMAIN d THEN d[k] ELSE updates[k]]

\* dict.update(updates): supplied keys overwrite, the others stay.
Update(d, updates) ==
    [k \in (DOMAIN d) \cup (DOMAIN updates) |->
        IF k \in DOMAIN updates THEN updates[k] ELSE d[k]]

----------------------------------------------------------------------------
(* Clock readings and their renderings *)

\* The instants datetime.now() can return, in whole seconds.
Times == 0..MaxSec

\* t1 is not later than t2
TimeLeq(t1, t2) == t1 <= t2

\* datetime.now().isoformat(): the rendering is kept as the instant it
\* renders; isoformat strings of one clock order as their instants do.
IsoFormat(t) == t

\* f"task-{datetime.now().strftime('%Y%m%d%H%M%S')}"
GenId(t) == "task-" \o ToString(t)

----------------------------------------------------------------------------
(* The board document *)

\* The board create_project writes for a new project, stamped at time t.
NewBoard(t) ==
    [lastUpdated |-> IsoFormat(t),
     columns |-> <<
        [id |-> "backlog", name |-> "BACKLOG", color |-> "accent", tasks |-> <<>>],
        [id |-> "in_progress", name |-> "IN PROGRESS", color |-> "warning", tasks |-> <<>>],
        [id |-> "review", name |-> "REVIEW", color |-> "purple", tasks |-> <<>>],
        [id |-> "done", name |-> "DONE", color |-> "success", tasks |-> <<>>] >>]

ColumnIds(columns) == {columns[c].id : c \in DOMAIN columns}

\* The positions <<c, i>> of the tasks of a board.
Positions(columns) ==
    UNION {{<<c, i>> : i \in DOMAIN columns[c].tasks} : c \in DOMAIN columns}

TaskAt(columns, p) == columns[p[1]].tasks[p[2]]

\* Positions in scan order: column by column, then by index.
PosBefore(p, q) == p[1] < q[1] \/ (p[1] = q[1] /\ p[2] < q[2])

MatchingPositions(columns, task_id) ==
    {p \in Positions(columns) : TaskAt(columns, p)["id"] = task_id}

\* The nested for-loops of move and update: the first task whose id matches.
FirstMatch(columns, task_id) ==
    CHOOSE p \in MatchingPositions(columns, task_id) :
        \A q \in MatchingPositions(columns, task_id) : q = p \/ PosBefore(p, q)

\* Variant of FirstColumn: an unknown id falls back to the first column.
FirstColumn_FallsBack(columns, col_id) ==
    IF col_id \in ColumnIds(columns)
    THEN CHOOSE c \in DOMAIN columns :
            /\ columns[c].id = col_id
            /\ \A d \in DOMAIN columns : columns[d].id = col_id => c <= d
    ELSE 1

\* The for-loop over the columns with break: the first column with this id,
\* 0 when there is none.
FirstColumn(columns, col_id) ==
    IF col_id \in ColumnIds(columns)
    THEN CHOOSE c \in DOMAIN columns :
            /\ columns[c].id = col_id
            /\ \A d \in DOMAIN columns : columns[d].id = col_id => c <= d
    ELSE 0

\* Variant of RemoveAt: the last element goes (list.pop()).
RemoveAt_Pops(s, i) == SubSeq(s, 1, Len(s) - 1)

\* list.remove of the element at index i
RemoveAt(s, i) == [j \in 1..(Len(s) - 1) |-> IF j < i THEN s[j] ELSE s[j + 1]]

\* col['tasks'].remove(t) for the task at position p
RemoveTask(columns, p) ==
    [columns EXCEPT ![p[1]].tasks = RemoveAt(@, p[2])]

\* Variant of AppendTask: the task is inserted at the head of the list.
AppendTask_AtHead(columns, col_id, task) ==
    LET c == FirstColumn(columns, col_id)
    IN  IF c = 0 THEN columns
        ELSE [columns EXCEPT ![c].tasks = <<task>> \o @]

\* col['tasks'].append(task) on the first column named col_id; nothing is
\* appended when no column has that id.
AppendTask(columns, col_id, task) ==
    LET c == FirstColumn(columns, col_id)
    IN  IF c = 0 THEN columns
        ELSE [columns EXCEPT ![c].tasks = Append(@, task)]

\* task.update(updates) on the task at position p
UpdateTask(columns, p, updates) ==
    [columns EXCEPT ![p[1]].tasks[p[2]] = Update(@, updates)]

----------------------------------------------------------------------------
(* Responses *)

\* Variant of Error: every error is sent as 400.
Error_AsBadRequest(code, message) == [status |-> 400, body |-> [error |-> message]]

\* send_error(code, message)
Error(code, message) == [status |-> code, body |-> [error |-> message]]

\* send_response(200) with a JSON body
Ok(body) == [status |-> 200, body |-> body]

\* The answer of GET /api/kanban for a stored document: its bytes.
GetResponse(doc) == Ok(doc)

\* Variant of Stamp: the document is written with the timestamp it had.
Stamp_KeepsOld(columns, t) == [lastUpdated |-> kanban.lastUpdated, columns |-> columns]

\* kanban['lastUpdated'] = datetime.now().isoformat() on the columns as
\* the handler changed them: the document that is written back.
Stamp(columns, t) == [lastUpdated |-> IsoFormat(t), columns |-> columns]

----------------------------------------------------------------------------
(* Requests the model issues *)

\* JSON bodies of POST /api/kanban/task
AddData ==
    { EmptyDict,
      [id |-> "a"],
      [column |-> "backlog"],
      [id |-> "a", column |-> "nope"] }

\* JSON bodies of POST /api/kanban/move
MoveData ==
    { [taskId |-> i, targetColumn |-> c] : i \in {"a", GenId(0)}, c \in {"done", "nope"} }
    \cup { [taskId |-> "a"], [targetColumn |-> "done"] }

\* JSON bodies of POST /api/kanban/update
UpdateData ==
    { [taskId |-> i, updates |-> [title |-> "X"]] : i \in {"a", GenId(0)} }
    \cup { [taskId |-> "a", updates |-> [title |-> "X", priority |-> "high"]],
           [taskId |-> "a"], [updates |-> [title |-> "X"]] }

----------------------------------------------------------------------------
(* Handlers *)

\* The parts of the state a specification does not use stay as they are.
NoFs ==
    [dirs |-> {}, files |-> EmptyDict,
     pointer |-> [exists |-> FALSE, text |-> <<>>], templates |-> {}]
NoServer == [queue |-> <<>>, running |-> {}]

Init ==
    /\ clock = 0
    /\ kanban = NewBoard(clock)
    /\ adds = 0
    /\ req = [op |-> "init", data |-> EmptyDict]
    /\ resp = Ok([success |-> TRUE])
    /\ pre = kanban
    /\ stored = {}
    /\ fs = NoFs
    /\ server = NoServer

\* Variant of Reject: the document is stamped and written before the error.
Reject_AfterWrite(doc, r) ==
    [doc |-> [doc EXCEPT !.lastUpdated = IsoFormat(clock)], resp |-> r]

\* send_error(...) followed by return: nothing is written, the stored
\* document stays the one that was read.
Reject(doc, r) == [doc |-> doc, resp |-> r]

\* kanban_path.write_text(json.dumps(kanban)) and the success response
Write(doc, r) == [doc |-> doc, resp |-> r]

\* The body of add_kanban_task on the document it read: the document that
\* is stored afterwards and the response.  datetime.now() is read three
\* times: for the default id (t1), for `created` (t2), for `lastUpdated` (t3).
\* uid is the identity of the new task in the model.
AddOutcome(doc, data, uid, t1, t2, t3) ==
    LET new_task ==
            [id |-> Get(data, "id", GenId(t1)),
             title |-> Get(data, "title", "New Task"),
             description |-> Get(data, "description", ""),
             category |-> Get(data, "category", "feature"),
             created |-> IsoFormat(t2),
             uid |-> uid]
        target_col == Get(data, "column", "backlog")
    IN  Write(Stamp(AppendTask(doc.columns, target_col, new_task), t3),
              Ok([success |-> TRUE, task |-> new_task]))

\* The body of move_kanban_task on the document it read.
MoveOutcome(doc, data, t) ==
    LET task_id == Get(data, "taskId", None)
        target_col == Get(data, "targetColumn", None)
    IN  IF ~Truthy(task_id) \/ ~Truthy(target_col)
        THEN Reject(doc, Error(400, "Missing taskId or targetColumn"))
        ELSE IF MatchingPositions(doc.columns, task_id) = {}
        THEN Reject(doc, Error(404, "Task not found"))
        ELSE LET p == FirstMatch(doc.columns, task_id)
                 task == TaskAt(doc.columns, p)
             IN  Write(Stamp(AppendTask(RemoveTask(doc.columns, p),
                                        target_col, task), t),
                       Ok([success |-> TRUE]))

\* The body of update_kanban_task on the document it read.
UpdateOutcome(doc, data, t) ==
    LET task_id == Get(data, "taskId", None)
        updates == Get(data, "updates", EmptyDict)
    IN  IF ~Truthy(task_id)
        THEN Reject(doc, Error(400, "Missing taskId"))
        ELSE IF MatchingPositions(doc.columns, task_id) = {}
        THEN Reject(doc, Error(404, "Task not found"))
        ELSE LET p == FirstMatch(doc.columns, task_id)
             IN  Write(Stamp(UpdateTask(doc.columns, p, updates), t),
                       Ok([success |-> TRUE]))

\* POST /api/kanban/task
add_kanban_task(data, t1, t2, t3) ==
    LET out == AddOutcome(kanban, data, adds + 1, t1, t2, t3)
    IN  /\ adds < MaxAdds
        /\ t1 = clock /\ TimeLeq(t1, t2) /\ TimeLeq(t2, t3)
        /\ req' = [op |-> "add", data |-> data]
        /\ pre' = kanban
        /\ adds' = adds + 1
        /\ stored' = IF Get(data, "column", "backlog") \in ColumnIds(kanban.columns)
                      THEN stored \cup {adds + 1} ELSE stored
        /\ clock' = t3
        /\ kanban' = out.doc
        /\ resp' = out.resp
        /\ UNCHANGED <<fs, server>>

\* POST /api/kanban/move
move_kanban_task(data) ==
    LET out == MoveOutcome(kanban, data, clock)
    IN  /\ req' = [op |-> "move", data |-> data]
        /\ pre' = kanban
        /\ kanban' = out.doc
        /\ resp' = out.resp
        /\ UNCHANGED <<adds, stored, clock, fs, server>>

\* POST /api/kanban/update
update_kanban_task(data) ==
    LET out == UpdateOutcome(kanban, data, clock)
    IN  /\ req' = [op |-> "update", data |-> data]
        /\ pre' = kanban
        /\ kanban' = out.doc
        /\ resp' = out.resp
        /\ UNCHANGED <<adds, stored, clock, fs, server>>

\* GET /api/kanban: the stored document is sent as it is.
handle_api_get ==
    /\ req' = [op |-> "get", data |-> EmptyDict]
    /\ resp' = GetResponse(kanban)
    /\ pre' = kanban
    /\ UNCHANGED <<kanban, clock, adds, stored, fs, server>>

\* Time passes between two requests.
Tick ==
    /\ clock < MaxSec
    /\ clock' = clock + 1
    /\ req' = [op |-> "tick", data |-> EmptyDict]
    /\ pre' = kanban
    /\ UNCHANGED <<kanban, adds, resp, stored, fs, server>>

AddTask == \E data \in AddData : \E t2, t3 \in Times : add_kanban_task(data, clock, t2, t3)
MoveTask == \E data \in MoveData : move_kanban_task(data)
UpdateTaskReq == \E data \in UpdateData : update_kanban_task(data)
GetBoard == handle_api_get

Next == AddTask \/ MoveTask \/ UpdateTaskReq \/ GetBoard \/ Tick

Spec == Init /\ [][Next]_vars

----------------------------------------------------------------------------
(* Vocabulary of the properties *)

\* The positions at which the task with identity u sits.
UidPositions(columns, u) ==
    {p \in Positions(columns) : TaskAt(columns, p)["uid"] = u}

\* A task list without the task of identity u.
Others(tasks, u) == SelectSeq(tasks, LAMBDA x : x["uid"] # u)

\* Order of two renderings of clock values
IsoLeq(a, b) == a <= b

HasId(tasks, task_id) == \E i \in DOMAIN tasks : tasks[i]["id"] = task_id

\* The last event was a move request that carries both fields.
MoveAsked ==
    /\ req.op = "move"
    /\ Truthy(Get(req.data, "taskId", None))
    /\ Truthy(Get(req.data, "targetColumn", None))

\* ... and its task id was on the board when it arrived.
MoveOfTask == MoveAsked /\ MatchingPositions(pre.columns, req.data["taskId"]) # {}

MoveToColumn == MoveOfTask /\ req.data["targetColumn"] \in ColumnIds(pre.columns)

MoveToNowhere == MoveOfTask /\ req.data["targetColumn"] \notin ColumnIds(pre.columns)

\* The last event was an update request that carries a task id.
UpdateAsked == req.op = "update" /\ Truthy(Get(req.data, "taskId", None))

UpdateOfTask == UpdateAsked /\ MatchingPositions(pre.columns, req.data["taskId"]) # {}

AddAsked == req.op = "add"

AddColumn == Get(req.data, "column", "backlog")

Mutation == req.op \in {"add", "move", "update"}

----------------------------------------------------------------------------
(* Properties *)

\* C1: every task that add_kanban_task put in a column is in exactly one
\* place of the board, after any sequence of requests: it is in no two
\* columns, not twice in one column, and it has not disappeared.
C1_EveryTaskInOneColumn ==
    /\ \A u \in stored : Cardinality(UidPositions(kanban.columns, u)) = 1
    /\ \A p \in Positions(kanban.columns) :
          UidPositions(kanban.columns, TaskAt(kanban.columns, p)["uid"]) = {p}

\* C2 as stated: after a move of a task in column S to an existing column
\* T the task is no longer in S, it is the last element of T with all its
\* fields as before, and the other tasks of every column are as before.
C2_MoveLeavesSource ==
    MoveToColumn =>
        LET p == FirstMatch(pre.columns, req.data["taskId"])
            task == TaskAt(pre.columns, p)
            S == p[1]
            T == FirstColumn(pre.columns, req.data["targetColumn"])
        IN  /\ resp.status = 200
            /\ UidPositions(kanban.columns, task["uid"]) \cap
                   {q \in Positions(kanban.columns) : q[1] = S} = {}
            /\ Len(kanban.columns[T].tasks) > 0
            /\ kanban.columns[T].tasks[Len(kanban.columns[T].tasks)] = task
            /\ \A c \in DOMAIN pre.columns :
                  Others(kanban.columns[c].tasks, task["uid"]) =
                  Others(pre.columns[c].tasks, task["uid"])

\* C2 amended: after a move of the first task with that id (in column
\* order), sitting in column S, to an existing column T, the task is the
\* last element of T with all its fields as before, it is in no other place
\* of the board (so not in S when T differs from S), and the other tasks of
\* every column are as before, in the same order.
C2_MoveToTarget ==
    MoveToColumn =>
        LET p == FirstMatch(pre.columns, req.data["taskId"])
            task == TaskAt(pre.columns, p)
            T == FirstColumn(pre.columns, req.data["targetColumn"])
        IN  /\ resp.status = 200
            /\ Len(kanban.columns[T].tasks) > 0
            /\ kanban.columns[T].tasks[Len(kanban.columns[T].tasks)] = task
            /\ UidPositions(kanban.columns, task["uid"]) =
                   {<<T, Len(kanban.columns[T].tasks)>>}
            /\ \A c \in DOMAIN pre.columns :
                  /\ kanban.columns[c].id = pre.columns[c].id
                  /\ Others(kanban.columns[c].tasks, task["uid"]) =
                     Others(pre.columns[c].tasks, task["uid"])

\* A move from one column to another one that already holds a task.
C2_Witness ==
    /\ MoveToColumn
    /\ resp.status = 200
    /\ LET p == FirstMatch(pre.columns, req.data["taskId"])
           T == FirstColumn(pre.columns, req.data["targetColumn"])
       IN  /\ p[1] # T
           /\ Len(pre.columns[T].tasks) > 0

\* C3: a move of a task that is on the board to a column that does not
\* exist is answered with an error, not with success.
C3_InvalidColumnIsError == MoveToNowhere => resp.status # 200

\* C4: a move of a task that is on the board to a column that does not
\* exist leaves every column's task list as it was.
C4_InvalidTargetIsNoOp == MoveToNowhere => kanban.columns = pre.columns

\* C5: a move request whose task id matches no task is answered 404 and the
\* stored document, lastUpdated included, is what it was.
C5_MoveNotFound ==
    (MoveAsked /\ ~MoveOfTask) => (resp.status = 404 /\ kanban = pre)

\* A move of an unknown id on a board that holds a task, at a time later
\* than the last write.
C5_Witness ==
    /\ MoveAsked /\ ~MoveOfTask
    /\ Positions(pre.columns) # {}
    /\ ~IsoLeq(IsoFormat(clock), pre.lastUpdated)

\* What GET /api/kanban answers in the current state.
BoardSeen == GetResponse(kanban).body

\* C6 as stated: after an add into backlog, the board that GET /api/kanban
\* returns has a task with the new id as the last element of backlog and
\* no task with that id in any other column.
C6_AddedOnlyInBacklog ==
    (AddAsked /\ AddColumn = "backlog") =>
        LET id == resp.body.task["id"]
            b == FirstColumn(BoardSeen.columns, "backlog")
        IN  /\ b # 0
            /\ Len(BoardSeen.columns[b].tasks) > 0
            /\ BoardSeen.columns[b].tasks[Len(BoardSeen.columns[b].tasks)]["id"] = id
            /\ \A c \in DOMAIN BoardSeen.columns :
                  c # b => ~HasId(BoardSeen.columns[c].tasks, id)

\* C6 amended: after an add into backlog, the board that GET /api/kanban
\* returns has a task with the new id as the last element of backlog, and
\* a task with that id in another column only if that column held one
\* before the request.
C6_AddedLastInBacklog ==
    (AddAsked /\ AddColumn = "backlog") =>
        LET id == resp.body.task["id"]
            b == FirstColumn(BoardSeen.columns, "backlog")
        IN  /\ b # 0
            /\ Len(BoardSeen.columns[b].tasks) > 0
            /\ BoardSeen.columns[b].tasks[Len(BoardSeen.columns[b].tasks)]["id"] = id
            /\ \A c \in DOMAIN BoardSeen.columns :
                  (c # b /\ HasId(BoardSeen.columns[c].tasks, id))
                      => HasId(pre.columns[c].tasks, id)

\* An add into a backlog that held a task of another id.
C6_Witness ==
    /\ AddAsked /\ AddColumn = "backlog"
    /\ \E i \in DOMAIN pre.columns[1].tasks :
          pre.columns[1].tasks[i]["id"] # resp.body.task["id"]

\* C7: an add whose column matches no column of the board leaves every
\* column's task list as it was, and the new task is in no column.
C7_UnknownColumnDrops ==
    (AddAsked /\ AddColumn \notin ColumnIds(pre.columns)) =>
        /\ kanban.columns = pre.columns
        /\ UidPositions(kanban.columns, resp.body.task["uid"]) = {}

\* An add into an unknown column on a board that holds a task.
C7_Witness ==
    /\ AddAsked /\ AddColumn \notin ColumnIds(pre.columns)
    /\ Positions(pre.columns) # {}

\* C8: an update of a task that is on the board changes, of the whole
\* board, only the first task with that id, and of that task exactly the
\* supplied keys: it stays where it is, every key that is not supplied
\* keeps its value, every supplied key gets the supplied value.  With
\* {title: X} only the title changes; id and created stay.
C8_UpdateIsShallowMerge ==
    UpdateOfTask =>
        LET p == FirstMatch(pre.columns, req.data["taskId"])
            old == TaskAt(pre.columns, p)
            updates == Get(req.data, "updates", EmptyDict)
        IN  /\ resp.status = 200
            /\ Positions(kanban.columns) = Positions(pre.columns)
            /\ \A q \in Positions(pre.columns) :
                  q # p => TaskAt(kanban.columns, q) = TaskAt(pre.columns, q)
            /\ LET new == TaskAt(kanban.columns, p)
               IN  /\ DOMAIN new = (DOMAIN old) \cup (DOMAIN updates)
                   /\ \A k \in DOMAIN updates : new[k] = updates[k]
                   /\ \A k \in (DOMAIN old) \ (DOMAIN updates) : new[k] = old[k]
                   /\ updates = [title |-> "X"] =>
                         /\ new["title"] = "X"
                         /\ new["id"] = old["id"]
                         /\ new["created"] = old["created"]
                         /\ DOMAIN new = DOMAIN old

\* An update of the title alone, of a task whose title was another one, on a
\* board with a second task.
C8_Witness ==
    /\ UpdateOfTask
    /\ req.data = [taskId |-> req.data["taskId"], updates |-> [title |-> "X"]]
    /\ TaskAt(pre.columns, FirstMatch(pre.columns, req.data["taskId"]))["title"] # "X"
    /\ Cardinality(Positions(pre.columns)) > 1

\* C9: an update request whose task id matches no task is answered 404 and
\* the stored document, lastUpdated included, is what it was.
C9_UpdateNotFound ==
    (UpdateAsked /\ ~UpdateOfTask) => (resp.status = 404 /\ kanban = pre)

\* An update of an unknown id on a board that holds a task, at a time later
\* than the last write.
C9_Witness ==
    /\ UpdateAsked /\ ~UpdateOfTask
    /\ Positions(pre.columns) # {}
    /\ ~IsoLeq(IsoFormat(clock), pre.lastUpdated)

\* C10: an add, move or update answered with success leaves lastUpdated at
\* the rendering of the current clock value, which is not before the value
\* it had; a request that fails leaves lastUpdated as it was; no step takes
\* lastUpdated back, and lastUpdated is never ahead of the clock.
C10_LastUpdatedFollowsClock ==
    /\ IsoLeq(kanban.lastUpdated, IsoFormat(clock))
    /\ IsoLeq(pre.lastUpdated, kanban.lastUpdated)
    /\ (Mutation /\ resp.status = 200) =>
          /\ kanban.lastUpdated = IsoFormat(clock)
          /\ IsoLeq(pre.lastUpdated, kanban.lastUpdated)
    /\ (Mutation /\ resp.status # 200) => kanban.lastUpdated = pre.lastUpdated

\* A successful move at a time later than the last write.
C10_Witness ==
    /\ MoveOfTask
    /\ resp.status = 200
    /\ ~IsoLeq(kanban.lastUpdated, pre.lastUpdated)

\* The ids the server can generate.
GeneratedIds == {GenId(t) : t \in Times}

\* C11: when every task of the board was added without an id, so that the
\* server generated all the ids, no two tasks of the board have the same id.
C11_GeneratedIdsUnique ==
    (\A p \in Positions(kanban.columns) :
        TaskAt(kanban.columns, p)["id"] \in GeneratedIds)
    => \A p, q \in Positions(kanban.columns) :
          p # q => TaskAt(kanban.columns, p)["id"] # TaskAt(kanban.columns, q)["id"]

----------------------------------------------------------------------------
(* The accept loop: main runs socketserver.TCPServer.serve_forever, which   *)
(* accepts a connection, runs its handler to the end, and only then accepts *)
(* the next one.  A handler is two steps here, reading kanban.json and      *)
(* writing it back, so that an interleaving of two handlers would show.     *)
(* In SerialSpec req maps each client to the request it submits and resp    *)
(* maps each answered client to its response and the clock values read.     *)

Clients == {1, 2}

\* The dispatch of handle_api_post on the path, applied to the document
\* the handler read; ts are the three clock values it reads.
RequestOutcome(doc, r, uid, ts) ==
    CASE r.op = "add" -> AddOutcome(doc, r.data, uid, ts[1], ts[2], ts[3])
      [] r.op = "move" -> MoveOutcome(doc, r.data, ts[3])
      [] r.op = "update" -> UpdateOutcome(doc, r.data, ts[3])

\* The mutation requests the two clients choose from.
SerialRequests ==
    { [op |-> "add", data |-> EmptyDict],
      [op |-> "add", data |-> [id |-> "a"]],
      [op |-> "move", data |-> [taskId |-> "a", targetColumn |-> "done"]],
      [op |-> "move", data |-> [taskId |-> "a", targetColumn |-> "nope"]],
      [op |-> "update", data |-> [taskId |-> "a", updates |-> [title |-> "X"]]],
      [op |-> "update", data |-> [taskId |-> "zz", updates |-> [title |-> "X"]]] }

\* The boards the two requests meet: a new one, and one with a task.
SerialBoards ==
    { NewBoard(0),
      AddOutcome(NewBoard(0), [id |-> "a"], 0, 0, 0, 0).doc }

SerialInit ==
    /\ clock = 0
    /\ kanban \in SerialBoards
    /\ pre = kanban
    /\ req \in [Clients -> SerialRequests]
    /\ resp = EmptyDict
    /\ server = [queue |-> <<>>, running |-> EmptyDict, overlapped |-> FALSE]
    /\ adds = 0
    /\ stored = {}
    /\ fs = NoFs

InQueue(c) == \E i \in DOMAIN server.queue : server.queue[i] = c

\* Variant of ServerIdle: a handler is started for every connection at
\* once (socketserver.ThreadingMixIn).
ServerIdle_Threading == TRUE

\* serve_forever is back in its loop: no handler is running.
ServerIdle == DOMAIN server.running = {}

\* A client's connection reaches the listening socket.
Connect(c) ==
    /\ ~InQueue(c) /\ c \notin DOMAIN server.running /\ c \notin DOMAIN resp
    /\ server' = [server EXCEPT
                    !.queue = Append(@, c),
                    !.overlapped = @ \/ server.queue # <<>> \/ DOMAIN server.running # {}]
    /\ UNCHANGED <<kanban, clock, adds, req, resp, pre, stored, fs>>

\* get_request and process_request: the oldest connection is accepted and
\* its handler starts.
Accept ==
    /\ ServerIdle
    /\ server.queue # <<>>
    /\ LET c == Head(server.queue)
       IN  server' = [server EXCEPT
                        !.queue = Tail(@),
                        !.running = [d \in DOMAIN @ \cup {c} |->
                                        IF d = c THEN [pc |-> "read"] ELSE @[d]]]
    /\ UNCHANGED <<kanban, clock, adds, req, resp, pre, stored, fs>>

\* kanban = json.loads(kanban_path.read_text())
HandlerRead(c) ==
    /\ c \in DOMAIN server.running
    /\ server.running[c].pc = "read"
    /\ server' = [server EXCEPT !.running[c] = [pc |-> "write", local |-> kanban]]
    /\ UNCHANGED <<kanban, clock, adds, req, resp, pre, stored, fs>>

\* The rest of the handler: the change of the document that was read, the
\* write of the whole document, the response.
HandlerFinish(c, ts) ==
    /\ c \in DOMAIN server.running
    /\ server.running[c].pc = "write"
    /\ TimeLeq(clock, ts[1]) /\ TimeLeq(ts[1], ts[2]) /\ TimeLeq(ts[2], ts[3])
    /\ req[c].op # "add" => (ts[1] = ts[3] /\ ts[2] = ts[3])
    /\ LET out == RequestOutcome(server.running[c].local, req[c], c, ts)
       IN  /\ kanban' = out.doc
           /\ resp' = [d \in DOMAIN resp \cup {c} |->
                          IF d = c THEN [status |-> out.resp.status,
                                         body |-> out.resp.body, times |-> ts]
                          ELSE resp[d]]
           /\ clock' = IF out.resp.status = 200 THEN ts[3] ELSE clock
    /\ server' = [server EXCEPT
                    !.running = [d \in DOMAIN @ \ {c} |-> @[d]]]
    /\ UNCHANGED <<adds, req, pre, stored, fs>>

ClientConnects == \E c \in Clients : Connect(c)
HandlerReads == \E c \in Clients : HandlerRead(c)
HandlerFinishes == \E c \in Clients : \E ts \in Times \X Times \X Times : HandlerFinish(c, ts)

SerialNext == ClientConnects \/ Accept \/ HandlerReads \/ HandlerFinishes

SerialSpec == SerialInit /\ [][SerialNext]_vars

\* The document and the responses after the requests of c1 and then c2,
\* each run alone on the stored document, with the clock values in ts.
SerialRun(c1, c2, ts) ==
    LET first == RequestOutcome(pre, req[c1], c1, ts[c1])
        second == RequestOutcome(first.doc, req[c2], c2, ts[c2])
    IN  [doc |-> second.doc,
         resps |-> [c \in {c1, c2} |-> IF c = c1 THEN first.resp ELSE second.resp]]

AllAnswered == DOMAIN resp = Clients

\* C12: at most one handler runs at a time, and once both requests are
\* answered the stored board and both responses are those of running the
\* two requests one after the other in one of the two orders.
C12_MutationsSerialize ==
    /\ Cardinality(DOMAIN server.running) <= 1
    /\ AllAnswered =>
          \E c1, c2 \in Clients :
             /\ c1 # c2
             /\ LET run == SerialRun(c1, c2, [c \in Clients |-> resp[c].times])
                IN  /\ kanban = run.doc
                    /\ \A c \in Clients :
                          /\ resp[c].status = run.resps[c].status
                          /\ resp[c].body = run.resps[c].body

\* Two adds, the second one arriving while the first was waiting or being
\* handled, both answered and both tasks on the board.
C12_Witness ==
    /\ AllAnswered
    /\ server.overlapped
    /\ \A c \in Clients : req[c].op = "add" /\ resp[c].status = 200
    /\ \A c \in Clients : UidPositions(kanban.columns, c) # {}

----------------------------------------------------------------------------
(* Text.  A Python str whose characters matter (a project name, a slug, a   *)
(* directory name) is the sequence of its characters.                       *)

UpperLetters ==
    <<"A", "B", "C", "D", "E", "F", "G", "H", "I", "J", "K", "L", "M",
      "N", "O", "P", "Q", "R", "S", "T", "U", "V", "W", "X", "Y", "Z">>

LowerLetters ==
    <<"a", "b", "c", "d", "e", "f", "g", "h", "i", "j", "k", "l", "m",
      "n", "o", "p", "q", "r", "s", "t", "u", "v", "w", "x", "y", "z">>

Digits == <<"0", "1", "2", "3", "4", "5", "6", "7", "8", "9">>

\* The characters of the model in the order of their code points.
CodePoints ==
    <<" ", "!", "-", ".">> \o Digits \o UpperLetters \o <<"_">> \o LowerLetters

Range(f) == {f[i] : i \in DOMAIN f}

\* ord(c)
Ord(c) == CHOOSE i \in DOMAIN CodePoints : CodePoints[i] = c

\* Comparison of two str: by code points, a proper prefix first.
StrLess(a, b) ==
    \E k \in 1..Len(b) :
        /\ k <= Len(a) + 1
        /\ \A j \in 1..(k - 1) : a[j] = b[j]
        /\ (k = Len(a) + 1 \/ Ord(a[k]) < Ord(b[k]))

\* str.lower()
LowerChar(c) ==
    IF c \in Range(UpperLetters)
    THEN LowerLetters[CHOOSE i \in DOMAIN UpperLetters : UpperLetters[i] = c]
    ELSE c

Lower(str) == [i \in DOMAIN str |-> LowerChar(str[i])]

\* The characters \s matches, among those of the model.
Whitespace == {" ", "\n"}

\* str.lstrip(chars), str.rstrip(chars), str.strip(chars)
RECURSIVE LStrip(_, _)
LStrip(str, chars) ==
    IF str # <<>> /\ Head(str) \in chars THEN LStrip(Tail(str), chars) ELSE str

RECURSIVE RStrip(_, _)
RStrip(str, chars) ==
    IF str # <<>> /\ str[Len(str)] \in chars
    THEN RStrip(SubSeq(str, 1, Len(str) - 1), chars) ELSE str

StripChars(str, chars) == RStrip(LStrip(str, chars), chars)

\* str.strip()
Strip(str) == StripChars(str, Whitespace)

\* str.replace(old, new) for single characters
Replace(str, old, new) == [i \in DOMAIN str |-> IF str[i] = old THEN new ELSE str[i]]

\* The characters [a-z0-9-] matches.
SlugChars == Range(LowerLetters) \cup Range(Digits) \cup {"-"}

\* re.sub(r'[^a-z0-9-]', '', str)
RemoveOthers(str) == SelectSeq(str, LAMBDA c : c \in SlugChars)

\* re.sub(r'[chars]+', new, str): every maximal run of chars becomes new.
RECURSIVE ReplaceRuns(_, _, _)
ReplaceRuns(str, chars, new) ==
    IF str = <<>> THEN <<>>
    ELSE IF Head(str) \in chars
         THEN <<new>> \o ReplaceRuns(LStrip(str, chars), chars, new)
         ELSE <<Head(str)>> \o ReplaceRuns(Tail(str), chars, new)

\* The project id create_new_project derives from the stripped name.
ProjectId(name) == RemoveOthers(Replace(Lower(name), " ", "-"))

\* slugify of scripts/new-project.py
slugify(name) ==
    LET lowered == Lower(name)
        dashed == ReplaceRuns(lowered, Whitespace \cup {"_"}, "-")
        cleaned == RemoveOthers(dashed)
        single == ReplaceRuns(cleaned, {"-"}, "-")
        slug == StripChars(single, {"-"})
    IN  IF slug = <<>> THEN <<"p", "r", "o", "j", "e", "c", "t">> ELSE slug

----------------------------------------------------------------------------
(* The two slug functions on the project names of SlugNames.  In SlugSpec   *)
(* req holds the name and resp the two slugs.                               *)

MaxNameLen == 3

NameChars == {"a", "B", "1", " ", "-", "_", "!"}

MyCoolApp == <<"M", "y", " ", "C", "o", "o", "l", " ", "A", "p", "p", "!", "!">>

SlugNames ==
    UNION {[1..n -> NameChars] : n \in 0..MaxNameLen} \cup {MyCoolApp}

SlugInit ==
    /\ req \in {[op |-> "name", data |-> n] : n \in SlugNames}
    /\ resp = [server |-> <<>>, script |-> <<>>]
    /\ clock = 0
    /\ kanban = NewBoard(clock)
    /\ adds = 0
    /\ pre = kanban
    /\ stored = {}
    /\ fs = NoFs
    /\ server = NoServer

\* Both functions are applied to the name; create_new_project strips it
\* first (line 492).
Slugify ==
    /\ req.op = "name"
    /\ req' = [op |-> "slug", data |-> req.data]
    /\ resp' = [server |-> ProjectId(Strip(req.data)), script |-> slugify(req.data)]
    /\ UNCHANGED <<kanban, clock, adds, pre, stored, fs, server>>

SlugNext == Slugify

SlugSpec == SlugInit /\ [][SlugNext]_vars

\* A slug as the spec describes it: only [a-z0-9-], not empty, no two
\* hyphens in a row, no hyphen at either end.
WellFormedSlug(slug) ==
    /\ slug # <<>>
    /\ \A i \in DOMAIN slug : slug[i] \in SlugChars
    /\ \A i \in 1..(Len(slug) - 1) : ~(slug[i] = "-" /\ slug[i + 1] = "-")
    /\ slug[1] # "-" /\ slug[Len(slug)] # "-"

MyCoolAppSlug == <<"m", "y", "-", "c", "o", "o", "l", "-", "a", "p", "p">>

\* C16: for every name that is not empty (once stripped), the project id of
\* the server's endpoint and the slug of the scaffolding tool are both well
\* formed, and "My Cool App!!" gives my-cool-app in both.
C16_SlugsWellFormed ==
    (req.op = "slug" /\ Strip(req.data) # <<>>) =>
        /\ WellFormedSlug(resp.server)
        /\ WellFormedSlug(resp.script)
        /\ req.data = MyCoolApp =>
              (resp.server = MyCoolAppSlug /\ resp.script = MyCoolAppSlug)

----------------------------------------------------------------------------
(* The project store.  fs is the part of the disk the server reads and      *)
(* writes:                                                                  *)
(*   dirs       the directories under PROJECTS_DIR, each as the sequence of *)
(*              names leading to it from PROJECTS_DIR (<<>> is PROJECTS_DIR *)
(*              itself),                                                    *)
(*   files      the regular files under PROJECTS_DIR, path |-> content,     *)
(*   pointer    ACTIVE_PROJECT_FILE: whether it exists, and its text,       *)
(*   templates  the files present in TEMPLATES_DIR/project/.shebang.        *)
(* PROJECT_ROOT and web/data exist.                                         *)

ShebangDev == <<"s", "h", "e", "b", "a", "n", "g", "-", "d", "e", "v">>
DotShebang == <<".", "s", "h", "e", "b", "a", "n", "g">>
KanbanJson == <<"k", "a", "n", "b", "a", "n", ".", "j", "s", "o", "n">>
MetricsJson == <<"m", "e", "t", "r", "i", "c", "s", ".", "j", "s", "o", "n">>
ConfigYaml == <<"c", "o", "n", "f", "i", "g", ".", "y", "a", "m", "l">>

\* Path.exists(), Path.is_dir()
Exists_FilesOnly(f, path) == path \in DOMAIN f.files
Exists(f, path) == path \in f.dirs \/ path \in DOMAIN f.files
IsDir(f, path) == path \in f.dirs

\* path / name: joining the empty str gives the path itself.
Join(path, name) == IF name = <<>> THEN path ELSE Append(path, name)

\* The directories mkdir(parents=True) makes sure of.
Parents(path) == {SubSeq(path, 1, n) : n \in 0..Len(path)}

\* Path.write_text, shutil.copy
WriteFile(f, path, content) ==
    [f EXCEPT !.files = [p \in DOMAIN f.files \cup {path} |->
                            IF p = path THEN content ELSE f.files[p]]]

get_active_project_Default(f) == ShebangDev

get_active_project(f) ==
    IF f.pointer.exists THEN Strip(f.pointer.text) ELSE ShebangDev

set_active_project(f, project_name) ==
    [f EXCEPT !.pointer = [exists |-> TRUE, text |-> project_name]]

\* get_project_path(project_name), and get_project_path() for the active one
get_project_path(f, project_name) == Append(Join(<<>>, project_name), DotShebang)

ActivePath_Default(f) == get_project_path(f, ShebangDev)

ActivePath(f) == get_project_path(f, get_active_project(f))

\* sorted(...) of a set of names
RECURSIVE Sorted_Descending(_)
Sorted_Descending(names) ==
    IF names = {} THEN <<>>
    ELSE LET m == CHOOSE x \in names : \A y \in names : y = x \/ StrLess(y, x)
         IN  <<m>> \o Sorted_Descending(names \ {m})

RECURSIVE Sorted(_)
Sorted(names) ==
    IF names = {} THEN <<>>
    ELSE LET m == CHOOSE x \in names : \A y \in names : y = x \/ StrLess(x, y)
         IN  <<m>> \o Sorted(names \ {m})

\* The entries of PROJECTS_DIR (iterdir).
Entries(f) == {p[1] : p \in {q \in f.dirs \cup DOMAIN f.files : Len(q) = 1}}

\* A config.yaml as the mapping yaml.safe_load gives.
Config(name, description, t) ==
    [name |-> name, description |-> description, created |-> IsoFormat(t), tags |-> <<>>]

ProjectEntry(f, dir) ==
    LET config == f.files[<<dir, DotShebang, ConfigYaml>>]
    IN  [id |-> dir,
         name |-> Get(config, "name", dir),
         description |-> Get(config, "description", <<>>),
         created |-> Get(config, "created", <<>>),
         tags |-> Get(config, "tags", <<>>)]

IsProject(f, dir) ==
    /\ IsDir(f, <<dir>>)
    /\ Exists(f, <<dir, DotShebang>>)
    /\ Exists(f, <<dir, DotShebang, ConfigYaml>>)

discover_projects(f) ==
    IF ~Exists(f, <<>>) THEN <<>>
    ELSE LET dirs == Sorted(Entries(f))
             found == SelectSeq(dirs, LAMBDA dir : IsProject(f, dir))
         IN  [i \in DOMAIN found |-> ProjectEntry(f, found[i])]

\* The documents of the template directory.
TemplateBoard == NewBoard(0)
TemplateMetrics == [template |-> TRUE]

\* create_project: what it returns or raises, and the disk it leaves.
create_project(f, project_id, name, description, t1, t2) ==
    LET project_dir == Join(<<>>, project_id)
        shebang_dir == Append(project_dir, DotShebang)
        made == [f EXCEPT !.dirs = @ \cup Parents(project_dir) \cup {shebang_dir}]
        copied1 == WriteFile(made, Append(shebang_dir, KanbanJson), TemplateBoard)
        copied2 == WriteFile(copied1, Append(shebang_dir, MetricsJson), TemplateMetrics)
        configured == WriteFile(copied2, Append(shebang_dir, ConfigYaml),
                                Config(name, description, t1))
        written == WriteFile(configured, Append(shebang_dir, KanbanJson), NewBoard(t2))
    IN  IF Exists(f, project_dir)
        THEN [fs |-> f, raised |-> FALSE, success |-> FALSE,
              message |-> "Project already exists"]
        ELSE IF KanbanJson \notin f.templates
        THEN [fs |-> made, raised |-> TRUE, success |-> FALSE,
              message |-> "FileNotFoundError"]
        ELSE IF MetricsJson \notin f.templates
        THEN [fs |-> copied1, raised |-> TRUE, success |-> FALSE,
              message |-> "FileNotFoundError"]
        ELSE [fs |-> written, raised |-> FALSE, success |-> TRUE,
              message |-> "Project created successfully"]

\* A handler that raises sends nothing: the connection is closed without a
\* status line.
NoResponse(exception) == [status |-> 0, body |-> [exception |-> exception]]

\* Variant of CreateOutcome: a project that was created becomes the active
\* one.
CreateOutcome_Activates(f, data, t1, t2) ==
    LET name == Strip(Get(data, "name", <<>>))
        description == Strip(Get(data, "description", <<>>))
        project_id == ProjectId(name)
        r == create_project(f, project_id, name, description, t1, t2)
    IN  IF name = <<>>
        THEN [fs |-> f, resp |-> Error(400, "Project name is required")]
        ELSE IF r.raised
        THEN [fs |-> r.fs, resp |-> NoResponse(r.message)]
        ELSE IF r.success
        THEN [fs |-> set_active_project(r.fs, project_id),
              resp |-> Ok([success |-> TRUE, projectId |-> project_id])]
        ELSE [fs |-> r.fs, resp |-> Error(400, r.message)]

\* create_new_project: the disk it leaves and what it answers.
CreateOutcome(f, data, t1, t2) ==
    LET name == Strip(Get(data, "name", <<>>))
        description == Strip(Get(data, "description", <<>>))
        project_id == ProjectId(name)
        r == create_project(f, project_id, name, description, t1, t2)
    IN  IF name = <<>>
        THEN [fs |-> f, resp |-> Error(400, "Project name is required")]
        ELSE IF r.raised
        THEN [fs |-> r.fs, resp |-> NoResponse(r.message)]
        ELSE IF r.success
        THEN [fs |-> r.fs, resp |-> Ok([success |-> TRUE, projectId |-> project_id])]
        ELSE [fs |-> r.fs, resp |-> Error(400, r.message)]

\* Variant of SelectOutcome: the pointer is written before the project is
\* looked up.
SelectOutcome_WritesFirst(f, data) ==
    LET project_id == Strip(Get(data, "projectId", <<>>))
    IN  IF project_id = <<>>
        THEN [fs |-> f, resp |-> Error(400, "Project ID is required")]
        ELSE IF ~Exists(f, get_project_path(f, project_id))
        THEN [fs |-> set_active_project(f, project_id),
              resp |-> Error(404, "Project not found")]
        ELSE [fs |-> set_active_project(f, project_id), resp |-> Ok([success |-> TRUE])]

\* select_project: the disk it leaves and what it answers.
SelectOutcome(f, data) ==
    LET project_id == Strip(Get(data, "projectId", <<>>))
    IN  IF project_id = <<>>
        THEN [fs |-> f, resp |-> Error(400, "Project ID is required")]
        ELSE IF ~Exists(f, get_project_path(f, project_id))
        THEN [fs |-> f, resp |-> Error(404, "Project not found")]
        ELSE [fs |-> set_active_project(f, project_id), resp |-> Ok([success |-> TRUE])]

\* The handler of r gets as far as reading kanban.json: move_kanban_task and
\* update_kanban_task answer 400 before that when a key is missing.
ReadsBoard(r) ==
    CASE r.op = "add" -> TRUE
      [] r.op = "move" -> /\ Truthy(Get(r.data, "taskId", None))
                          /\ Truthy(Get(r.data, "targetColumn", None))
      [] r.op = "update" -> Truthy(Get(r.data, "taskId", None))

\* add_kanban_task, move_kanban_task and update_kanban_task on the disk:
\* read_text raises when the active project has no kanban.json.
BoardOutcome(f, r, uid, t) ==
    LET kanban_path == Append(ActivePath(f), KanbanJson)
        missing == ~Exists(f, kanban_path)
        doc == IF missing THEN EmptyDict ELSE f.files[kanban_path]
        out == RequestOutcome(doc, r, uid, <<t, t, t>>)
    IN  IF missing /\ ReadsBoard(r)
        THEN [fs |-> f, resp |-> NoResponse("FileNotFoundError")]
        ELSE IF missing
        THEN [fs |-> f, resp |-> out.resp]
        ELSE [fs |-> WriteFile(f, kanban_path, out.doc), resp |-> out.resp]

\* GET /api/kanban
BoardGetOutcome(f) ==
    LET kanban_path == Append(ActivePath(f), KanbanJson)
    IN  IF Exists(f, kanban_path)
        THEN GetResponse(f.files[kanban_path])
        ELSE Error(404, "Kanban data not found")

\* The request bodies of the project store.
CreateData ==
    { [name |-> <<"B", " ">>, description |-> <<"d">>], [name |-> ShebangDev],
      [name |-> <<"!">>], [name |-> <<" ">>], EmptyDict }

SelectData ==
    { [projectId |-> <<"b", " ">>], [projectId |-> ShebangDev],
      [projectId |-> <<"c">>], [projectId |-> <<"z">>],
      [projectId |-> <<>>], EmptyDict }

ProjRequests ==
    { [op |-> "add", data |-> EmptyDict],
      [op |-> "move", data |-> [taskId |-> GenId(0), targetColumn |-> "done"]],
      [op |-> "move", data |-> [taskId |-> GenId(0)]],
      [op |-> "update", data |-> [taskId |-> GenId(0), updates |-> [title |-> "X"]]],
      [op |-> "update", data |-> [updates |-> [title |-> "X"]]] }

\* The number of add_kanban_task requests followed in the project store.
MaxProjAdds == 1

\* A complete project, and the disks the server may start on: nothing at
\* all, or PROJECTS_DIR with the default project, a directory without
\* .shebang, a directory whose .shebang has no config.yaml, and a plain file.
WithProject(f, dir) ==
    LET made == [f EXCEPT !.dirs = @ \cup {<<>>, <<dir>>, <<dir, DotShebang>>}]
        c == WriteFile(made, <<dir, DotShebang, ConfigYaml>>, Config(dir, <<>>, 0))
        m == WriteFile(c, <<dir, DotShebang, MetricsJson>>, TemplateMetrics)
    IN  WriteFile(m, <<dir, DotShebang, KanbanJson>>, NewBoard(0))

Populated ==
    LET f == WithProject(NoFs, ShebangDev)
        g == [f EXCEPT !.dirs = @ \cup {<<<<"1">>>>, <<<<"c">>>>, <<<<"c">>, DotShebang>>}]
    IN  WriteFile(g, <<<<"R">>>>, "readme")

ProjDisks ==
    { [NoFs EXCEPT !.templates = {KanbanJson, MetricsJson}],
      [NoFs EXCEPT !.templates = {KanbanJson}],
      [Populated EXCEPT !.templates = {KanbanJson, MetricsJson}] }

ProjInit ==
    /\ fs \in ProjDisks
    /\ clock = 0
    /\ adds = 0
    /\ req = [op |-> "init", data |-> EmptyDict]
    /\ resp = Ok([success |-> TRUE])
    /\ pre = fs
    /\ stored = <<>>
    /\ kanban = NewBoard(0)
    /\ server = NoServer

\* The project store is followed within one second of the clock.
create_new_project(data) ==
    LET out == CreateOutcome(fs, data, clock, clock)
    IN  /\ req' = [op |-> "create", data |-> data]
        /\ pre' = fs
        /\ fs' = out.fs
        /\ resp' = out.resp
        /\ UNCHANGED <<kanban, clock, adds, stored, server>>

\* stored: the id of the last select_project that succeeded, if any.
select_project(data) ==
    LET out == SelectOutcome(fs, data)
    IN  /\ req' = [op |-> "select", data |-> data]
        /\ pre' = fs
        /\ fs' = out.fs
        /\ resp' = out.resp
        /\ stored' = IF out.resp.status = 200
                     THEN <<Strip(data.projectId)>> ELSE stored
        /\ UNCHANGED <<kanban, clock, adds, server>>

BoardRequest(r) ==
    LET out == BoardOutcome(fs, r, adds + 1, clock)
    IN  /\ r.op = "add" => adds < MaxProjAdds
        /\ req' = r
        /\ pre' = fs
        /\ fs' = out.fs
        /\ resp' = out.resp
        /\ adds' = IF r.op = "add" THEN adds + 1 ELSE adds
        /\ UNCHANGED <<kanban, clock, stored, server>>

BoardGet ==
    /\ req' = [op |-> "get", data |-> EmptyDict]
    /\ pre' = fs
    /\ resp' = BoardGetOutcome(fs)
    /\ UNCHANGED <<kanban, clock, adds, stored, fs, server>>

\* GET /api/projects
ListProjects ==
    /\ req' = [op |-> "list", data |-> EmptyDict]
    /\ pre' = fs
    /\ resp' = Ok([projects |-> discover_projects(fs), active |-> get_active_project(fs)])
    /\ UNCHANGED <<kanban, clock, adds, stored, fs, server>>

\* The server process is stopped and started again: the disk stays.
Restart ==
    /\ req' = [op |-> "restart", data |-> EmptyDict]
    /\ pre' = fs
    /\ UNCHANGED <<kanban, clock, adds, resp, stored, fs, server>>

\* Routing.  A request path is the sequence of its segments: /api/kanban/move
\* is <<"api", "kanban", "move">>, and /api/ is <<"api", "">>.
TaskPath == <<"api", "kanban", "task">>
MovePath == <<"api", "kanban", "move">>
UpdatePath == <<"api", "kanban", "update">>
ProjectsPath == <<"api", "projects">>
SelectPath == <<"api", "projects", "select">>
KanbanPath == <<"api", "kanban">>
MetricsPath == <<"api", "metrics">>

\* path.startswith('/api/')
IsApi(path) == Len(path) >= 2 /\ path[1] = "api"

\* A request body: whether its bytes are UTF-8, and what json.loads makes of
\* the text: "json" parses to data, "garbage" does not parse, "" is no body.
JsonBody(data) == [utf8 |-> TRUE, text |-> "json", data |-> data]
GarbageBody == [utf8 |-> TRUE, text |-> "garbage", data |-> EmptyDict]
EmptyBody == [utf8 |-> TRUE, text |-> "", data |-> EmptyDict]
NotUtf8Body == [utf8 |-> FALSE, text |-> "garbage", data |-> EmptyDict]

\* Lines 465-472: decode('utf-8') is outside the try and raises on bytes that
\* are not UTF-8; json.loads is inside it; an empty body stands for {}.
ParseBody(body) ==
    IF ~body.utf8
    THEN [raised |-> TRUE, valid |-> FALSE, data |-> EmptyDict]
    ELSE IF body.text = ""
    THEN [raised |-> FALSE, valid |-> TRUE, data |-> EmptyDict]
    ELSE IF body.text = "garbage"
    THEN [raised |-> FALSE, valid |-> FALSE, data |-> EmptyDict]
    ELSE [raised |-> FALSE, valid |-> TRUE, data |-> body.data]

\* do_POST and handle_api_post: the disk they leave and what they answer.
PostOutcome(f, path, body, uid, t) ==
    LET parsed == ParseBody(body)
        data == parsed.data
    IN  IF ~IsApi(path)
        THEN [fs |-> f, resp |-> Error(405, "Method not allowed")]
        ELSE IF parsed.raised
        THEN [fs |-> f, resp |-> NoResponse("UnicodeDecodeError")]
        ELSE IF ~parsed.valid
        THEN [fs |-> f, resp |-> Error(400, "Invalid JSON")]
        ELSE IF path = TaskPath
        THEN BoardOutcome(f, [op |-> "add", data |-> data], uid, t)
        ELSE IF path = MovePath
        THEN BoardOutcome(f, [op |-> "move", data |-> data], uid, t)
        ELSE IF path = UpdatePath
        THEN BoardOutcome(f, [op |-> "update", data |-> data], uid, t)
        ELSE IF path = ProjectsPath
        THEN CreateOutcome(f, data, t, t)
        ELSE IF path = SelectPath
        THEN SelectOutcome(f, data)
        ELSE [fs |-> f, resp |-> Error(404, "API endpoint not found")]

\* handle_api_get
ApiGetOutcome(f, path) ==
    IF path = KanbanPath THEN BoardGetOutcome(f)
    ELSE IF path = MetricsPath
    THEN IF Exists(f, Append(ActivePath(f), MetricsJson))
         THEN Ok(f.files[Append(ActivePath(f), MetricsJson)])
         ELSE Error(404, "Metrics data not found")
    ELSE IF path = ProjectsPath
    THEN Ok([projects |-> discover_projects(f), active |-> get_active_project(f)])
    ELSE Error(404, "API endpoint not found")

\* The POST requests followed as raw requests: bodies that do not parse on
\* known and unknown paths, and paths that are no endpoint.
PostRequests ==
    { [path |-> q, body |-> b] :
        q \in {MovePath, ProjectsPath, <<"api", "nope">>},
        b \in {GarbageBody, NotUtf8Body} }
    \cup
    { [path |-> q, body |-> b] :
        q \in {<<"api", "nope">>, <<"api", "kanban">>, <<"kanban", "move">>, <<"api">>},
        b \in {EmptyBody, JsonBody([taskId |-> GenId(0), targetColumn |-> "done"])} }
    \cup
    { [path |-> <<"kanban", "move">>, body |-> GarbageBody] }

\* The GET requests to /api/ followed as raw requests.
GetPaths == {MetricsPath, <<"api", "nope">>, TaskPath, <<"api", "">>}

do_POST(r) ==
    LET out == PostOutcome(fs, r.path, r.body, adds + 1, clock)
    IN  /\ req' = [op |-> "post", path |-> r.path, body |-> r.body]
        /\ pre' = fs
        /\ fs' = out.fs
        /\ resp' = out.resp
        /\ UNCHANGED <<kanban, clock, adds, stored, server>>

do_GET(path) ==
    /\ IsApi(path)
    /\ req' = [op |-> "getpath", path |-> path]
    /\ pre' = fs
    /\ resp' = ApiGetOutcome(fs, path)
    /\ UNCHANGED <<kanban, clock, adds, stored, fs, server>>

RawPost == \E r \in PostRequests : do_POST(r)
RawGet == \E path \in GetPaths : do_GET(path)
CreateProject == \E data \in CreateData : create_new_project(data)
SelectProject == \E data \in SelectData : select_project(data)
BoardMutation == \E r \in ProjRequests : BoardRequest(r)

ProjNext ==
    \/ CreateProject
    \/ SelectProject
    \/ BoardMutation
    \/ BoardGet
    \/ ListProjects
    \/ Restart
    \/ RawPost
    \/ RawGet

ProjSpec == ProjInit /\ [][ProjNext]_vars

----------------------------------------------------------------------------
(* Properties of the project store.  They are read right after a request:   *)
(* req is the request, pre the disk it found, fs the disk it left and resp  *)
(* its answer.                                                              *)

\* The project directory dir has its .shebang subtree on disk f.
HasSubtree(f, dir) == <<dir, DotShebang>> \in f.dirs

SelectAsked ==
    /\ req.op = "select"
    /\ "projectId" \in DOMAIN req.data
    /\ Strip(req.data.projectId) # <<>>

\* C13: select_project of a project whose subtree does not exist answers
\* 404 and leaves the pointer file as it was; of a project whose subtree
\* exists it overwrites the pointer, and get_active_project then returns
\* the id.
C13_SelectChecksSubtree ==
    SelectAsked =>
        LET id == Strip(req.data.projectId)
        IN  IF HasSubtree(pre, id)
            THEN /\ resp.status = 200
                 /\ fs.pointer.exists
                 /\ get_active_project(fs) = id
                 /\ fs = [pre EXCEPT !.pointer = fs.pointer]
            ELSE /\ resp = Error(404, "Project not found")
                 /\ fs = pre

\* C13 happens both ways: a select is refused while the pointer names
\* another project, and a select replaces a pointer that named another one.
C13_Witness ==
    /\ SelectAsked
    /\ pre.pointer.exists
    /\ ~HasSubtree(pre, Strip(req.data.projectId))
    /\ resp.status = 404

C13_WitnessOverwrite ==
    /\ SelectAsked
    /\ pre.pointer.exists
    /\ resp.status = 200
    /\ get_active_project(pre) # get_active_project(fs)

\* The id of the last select_project that succeeded, or the default.
LastSelected == IF stored = <<>> THEN ShebangDev ELSE stored[1]

\* C14: get_active_project returns shebang-dev while the pointer file is
\* absent and otherwise the id of the last successful select_project, GET
\* /api/projects reports that value, and a restart of the server leaves it
\* as it was.
C14_ActiveIsLastSelected ==
    /\ fs.pointer.exists <=> stored # <<>>
    /\ get_active_project(fs) = LastSelected
    /\ ~fs.pointer.exists => get_active_project(fs) = ShebangDev
    /\ req.op = "list" => resp.body.active = LastSelected
    /\ req.op = "restart" => get_active_project(fs) = get_active_project(pre)

\* C14 happens: the server restarts while the pointer names a project other
\* than the default.
C14_Witness ==
    /\ req.op = "restart"
    /\ fs.pointer.exists
    /\ stored # <<>>
    /\ get_active_project(fs) = stored[1]
    /\ stored[1] # ShebangDev

\* The kanban.json of the project directory dir.
BoardPath(dir) == <<dir, DotShebang, KanbanJson>>

BoardMutationAsked == req.op \in {"add", "move", "update"}

\* C15: an add, move or update request changes nothing on disk but the
\* kanban.json of the project selected last (the default one if none was):
\* every other file, the directories and the pointer are as before; a
\* successful add does change that document; and GET /api/kanban returns
\* that document.
C15_BoardOpsScoped ==
    LET active == BoardPath(LastSelected)
    IN  /\ BoardMutationAsked =>
              /\ fs.dirs = pre.dirs
              /\ fs.pointer = pre.pointer
              /\ DOMAIN fs.files = DOMAIN pre.files
              /\ \A p \in DOMAIN fs.files : p # active => fs.files[p] = pre.files[p]
        /\ (req.op = "add" /\ resp.status = 200) =>
              /\ active \in DOMAIN pre.files
              /\ fs.files[active] # pre.files[active]
        /\ (req.op = "get" /\ active \in DOMAIN fs.files) =>
              resp = Ok(fs.files[active])

\* C15 happens: a task is added to the board of a selected project B while
\* the default project, active before, has a board of its own.
C15_Witness ==
    /\ req.op = "add"
    /\ resp.status = 200
    /\ stored # <<>>
    /\ LastSelected # ShebangDev
    /\ BoardPath(ShebangDev) \in DOMAIN fs.files
    /\ fs.files[BoardPath(LastSelected)] # pre.files[BoardPath(LastSelected)]
    /\ fs.files[BoardPath(ShebangDev)] = pre.files[BoardPath(ShebangDev)]

CreateAsked ==
    /\ req.op = "create"
    /\ "name" \in DOMAIN req.data
    /\ Strip(req.data.name) # <<>>

\* The id create_new_project derives for the request.
CreateId == ProjectId(Strip(req.data.name))

\* C17: create_new_project for a name whose id is that of an existing
\* project answers 400 'Project already exists' and leaves the whole disk
\* (every project's config, board and metrics, the set of directories and
\* the pointer) as it was.
C17_ExistingProjectKept ==
    (CreateAsked /\ HasSubtree(pre, CreateId)) =>
        /\ resp = Error(400, "Project already exists")
        /\ fs = pre

\* C17 happens: the request names a project that is selected and whose
\* board holds a task.
C17_Witness ==
    /\ CreateAsked
    /\ HasSubtree(pre, CreateId)
    /\ resp.status = 400
    /\ pre.pointer.exists
    /\ get_active_project(pre) = CreateId
    /\ pre.files[BoardPath(CreateId)] # NewBoard(0)
    /\ fs.files[BoardPath(CreateId)] = pre.files[BoardPath(CreateId)]

CanonicalColumns == <<"backlog", "in_progress", "review", "done">>

\* The document is a board of the four canonical columns, all empty.
IsEmptyBoard(doc) ==
    /\ [i \in DOMAIN doc.columns |-> doc.columns[i].id] = CanonicalColumns
    /\ \A i \in DOMAIN doc.columns : doc.columns[i].tasks = <<>>

\* The ids GET /api/projects lists on disk f.
ListedIds(f) == {discover_projects(f)[i].id : i \in DOMAIN discover_projects(f)}

\* C18: after a create_new_project that answered success with projectId id,
\* the project's kanban.json is an empty board of the four canonical
\* columns, its config.yaml exists, GET /api/projects lists id, and
\* select_project of id succeeds.
C18_CreatedProjectUsable ==
    (req.op = "create" /\ resp.status = 200) =>
        LET id == resp.body.projectId
            subtree == get_project_path(fs, id)
        IN  /\ Append(subtree, KanbanJson) \in DOMAIN fs.files
            /\ IsEmptyBoard(fs.files[Append(subtree, KanbanJson)])
            /\ Append(subtree, ConfigYaml) \in DOMAIN fs.files
            /\ id \in ListedIds(fs)
            /\ SelectOutcome(fs, [projectId |-> id]).resp.status = 200

\* The subdirectories of PROJECTS_DIR on disk f, and those of them that hold
\* the .shebang subtree with its config.yaml.
Subdirectories(f) == {p[1] : p \in {q \in f.dirs : Len(q) = 1}}

Configured(f) ==
    {dir \in Subdirectories(f) :
        /\ <<dir, DotShebang>> \in f.dirs
        /\ <<dir, DotShebang, ConfigYaml>> \in DOMAIN f.files}

\* C19: GET /api/projects lists exactly the subdirectories of PROJECTS_DIR
\* that hold .shebang/config.yaml, one entry each, in ascending order of
\* the directory name; no other directory or file gives an entry.
C19_ListIsSortedAndExact ==
    req.op = "list" =>
        LET projects == resp.body.projects
        IN  /\ {projects[i].id : i \in DOMAIN projects} = Configured(fs)
            /\ \A i, j \in DOMAIN projects :
                  i < j => StrLess(projects[i].id, projects[j].id)

\* C19 happens: two projects are listed while PROJECTS_DIR also holds a
\* directory without .shebang and one whose .shebang has no config.yaml.
C19_Witness ==
    /\ req.op = "list"
    /\ Len(resp.body.projects) >= 2
    /\ \E dir \in Subdirectories(fs) : <<dir, DotShebang>> \notin fs.dirs
    /\ \E dir \in Subdirectories(fs) :
          /\ <<dir, DotShebang>> \in fs.dirs
          /\ <<dir, DotShebang, ConfigYaml>> \notin DOMAIN fs.files

\* C20: an add, move, update or GET request that finds no kanban.json for
\* the active project is answered with a 4xx status.
C20_MissingBoardIs4xx ==
    (/\ req.op \in {"add", "move", "update", "get"}
     /\ BoardPath(LastSelected) \notin DOMAIN pre.files) =>
        resp.status \in 400..499

\* The path begins with /api/.
UnderApi(path) == Len(path) >= 2 /\ path[1] = "api"

\* The body of a raw POST is not valid JSON.
BodyIsNotJson == ~req.body.utf8 \/ req.body.text = "garbage"

\* The request is one of the invalid inputs: a POST to an /api/ path whose
\* body is not valid JSON, a create with a blank name, a select with a blank
\* projectId, a move without taskId or targetColumn, an update without
\* taskId.
InvalidInput ==
    \/ req.op = "post" /\ UnderApi(req.path) /\ BodyIsNotJson
    \/ req.op = "create" /\ Strip(Get(req.data, "name", <<>>)) = <<>>
    \/ req.op = "select" /\ Strip(Get(req.data, "projectId", <<>>)) = <<>>
    \/ req.op = "move" /\ ~("taskId" \in DOMAIN req.data /\ "targetColumn" \in DOMAIN req.data)
    \/ req.op = "update" /\ "taskId" \notin DOMAIN req.data

\* C21: every invalid input is answered with status 400 and leaves the
\* disk (every board document, the set of projects, the pointer) unchanged.
C21_InvalidInputIs400 ==
    InvalidInput => (resp.status = 400 /\ fs = pre)

KnownPostPaths == {TaskPath, MovePath, UpdatePath, ProjectsPath, SelectPath}
KnownGetPaths == {KanbanPath, MetricsPath, ProjectsPath}

\* C22: a GET or POST to an /api/ path that is no endpoint is answered 404,
\* a POST outside /api/ is answered 405, whatever the body, and the disk is
\* unchanged.
C22_RoutedByMethodAndPath ==
    /\ (req.op = "post" /\ UnderApi(req.path) /\ req.path \notin KnownPostPaths) =>
          (resp.status = 404 /\ fs = pre)
    /\ (req.op = "post" /\ ~UnderApi(req.path)) =>
          (resp.status = 405 /\ fs = pre)
    /\ (req.op = "getpath" /\ req.path \notin KnownGetPaths) =>
          (resp.status = 404 /\ fs = pre)

\* C28: a create_new_project that does not answer success leaves no trace:
\* no directory of the derived id remains unless it was there before, and
\* GET /api/projects, select_project of the id and the same create request
\* again give what they would have given before the call.
C28_FailedCreateLeavesNothing ==
    (CreateAsked /\ resp.status # 200) =>
        /\ <<CreateId>> \in fs.dirs => <<CreateId>> \in pre.dirs
        /\ discover_projects(fs) = discover_projects(pre)
        /\ SelectOutcome(fs, [projectId |-> CreateId]).resp
              = SelectOutcome(pre, [projectId |-> CreateId]).resp
        /\ CreateOutcome(fs, req.data, clock, clock).resp
              = CreateOutcome(pre, req.data, clock, clock).resp

\* C30: the active project is the default one or a project whose subtree is
\* on disk, and a create_new_project leaves the pointer file as it was.
C30_ActiveProjectExists ==
    /\ \/ get_active_project(fs) = ShebangDev
       \/ <<get_active_project(fs), DotShebang>> \in fs.dirs
    /\ req.op = "create" => fs.pointer = pre.pointer

\* C30 happens: a project is created while another project, not the
\* default one, is selected.
C30_Witness ==
    /\ req.op = "create"
    /\ resp.status = 200
    /\ pre.pointer.exists
    /\ get_active_project(fs) # ShebangDev
    /\ get_active_project(fs) # resp.body.projectId
    /\ <<resp.body.projectId, DotShebang>> \in fs.dirs

\* C29: when an add request is answered 200 with success and the task, the
\* board that GET /api/kanban returns right afterwards holds a task with
\* that id in some column.
C29_AcknowledgedAddIsStored ==
    (req.op = "add" /\ resp.status = 200 /\ "task" \in DOMAIN resp.body) =>
        \E i \in DOMAIN BoardSeen.columns :
            HasId(BoardSeen.columns[i].tasks, resp.body.task["id"])

----------------------------------------------------------------------------
(* The Markdown renderer, simple_markdown_to_html.  A text is the sequence  *)
(* of its characters; in the HTML that the passes build, each tag and each  *)
(* entity they insert is one element of the sequence ("<h1>", "&amp;"): no  *)
(* pattern of a later pass matches a character inside a tag or an entity,   *)
(* and the only test on them, startswith, is StartsWithLt.                  *)

StartsWith(str, prefix) ==
    Len(str) >= Len(prefix) /\ SubSeq(str, 1, Len(prefix)) = prefix

Take(str, n) == SubSeq(str, 1, n)
Drop(str, n) == SubSeq(str, n + 1, Len(str))

\* The least element of a non-empty set of numbers.
Least(S) == CHOOSE m \in S : \A n \in S : m <= n

\* The index of the first c in str (c occurs in str).
IndexOf(str, c) == Least({i \in DOMAIN str : str[i] = c})

\* str.split(c)
RECURSIVE Split(_, _)
Split(str, c) ==
    IF c \notin Range(str) THEN <<str>>
    ELSE <<Take(str, IndexOf(str, c) - 1)>> \o Split(Drop(str, IndexOf(str, c)), c)

\* The concatenation of a sequence of texts, and sep.join(parts).
RECURSIVE Chain(_)
Chain(parts) == IF parts = <<>> THEN <<>> ELSE Head(parts) \o Chain(Tail(parts))

RECURSIVE JoinWith(_, _)
JoinWith(parts, sep) ==
    IF parts = <<>> THEN <<>>
    ELSE IF Len(parts) = 1 THEN parts[1]
    ELSE parts[1] \o sep \o JoinWith(Tail(parts), sep)

Newline == <<"\n">>

\* The backquote character, as one element of a text: between double
\* quotes it cannot be written in a module that has primed variables.
Backquote == "BACKQUOTE"

\* The characters \w matches.
WordChars == Range(LowerLetters) \cup Range(UpperLetters) \cup Range(Digits) \cup {"_"}

\* Line 276: & < > become entities.
EscapeChar(c) ==
    CASE c = "&" -> "&amp;"
      [] c = "<" -> "&lt;"
      [] c = ">" -> "&gt;"
      [] OTHER -> c

Escape(str) == [i \in DOMAIN str |-> EscapeChar(str[i])]

\* html.split on the newline.  A pass whose pattern has ^ and $ and no
\* newline acts on each line.
Lines(str) == Split(str, "\n")

\* Lines 279-282: the four header patterns on one line, four # first.
HeaderLine(line) ==
    IF StartsWith(line, <<"#", "#", "#", "#", " ">>) /\ Len(line) > 5
    THEN <<"<h4>">> \o Drop(line, 5) \o <<"</h4>">>
    ELSE IF StartsWith(line, <<"#", "#", "#", " ">>) /\ Len(line) > 4
    THEN <<"<h3>">> \o Drop(line, 4) \o <<"</h3>">>
    ELSE IF StartsWith(line, <<"#", "#", " ">>) /\ Len(line) > 3
    THEN <<"<h2>">> \o Drop(line, 3) \o <<"</h2>">>
    ELSE IF StartsWith(line, <<"#", " ">>) /\ Len(line) > 2
    THEN <<"<h1>">> \o Drop(line, 2) \o <<"</h1>">>
    ELSE line

Headers(str) ==
    JoinWith([i \in DOMAIN Lines(str) |-> HeaderLine(Lines(str)[i])], Newline)

\* re.sub of a pattern  d content d  where the content is one or more
\* characters outside excluded, as short as possible: scanning from the
\* left, each match becomes  open content close.
RECURSIVE Delimited(_, _, _, _, _)
Delimited(str, d, open, close, excluded) ==
    LET k == Len(d)
        rest == Drop(str, k)
        ends == {m \in 1..Len(rest) :
                    /\ \A j \in 1..m : rest[j] \notin excluded
                    /\ StartsWith(Drop(rest, m), d)}
    IN  IF str = <<>> THEN <<>>
        ELSE IF StartsWith(str, d) /\ ends # {}
        THEN <<open>> \o Take(rest, Least(ends)) \o <<close>>
                \o Delimited(Drop(rest, Least(ends) + k), d, open, close, excluded)
        ELSE <<Head(str)>> \o Delimited(Tail(str), d, open, close, excluded)

\* Lines 285-287: three stars, then two, then one; the content has no
\* newline.
Emphasis(str) ==
    LET strongem == Delimited(str, <<"*", "*", "*">>, "<strong><em>", "</em></strong>", {"\n"})
        strong == Delimited(strongem, <<"*", "*">>, "<strong>", "</strong>", {"\n"})
    IN  Delimited(strong, <<"*">>, "<em>", "</em>", {"\n"})

Fence == <<Backquote, Backquote, Backquote>>

\* Line 290: a fence, word characters, a newline, the shortest content
\* (newlines included) up to the next fence.
RECURSIVE CodeBlocks(_)
CodeBlocks(str) ==
    LET after == LStrip(Drop(str, 3), WordChars)
        body == Drop(after, 1)
        ends == {m \in 0..Len(body) : StartsWith(Drop(body, m), Fence)}
    IN  IF str = <<>> THEN <<>>
        ELSE IF StartsWith(str, Fence) /\ StartsWith(after, Newline) /\ ends # {}
        THEN <<"<pre><code>">> \o Take(body, Least(ends)) \o <<"</code></pre>">>
                \o CodeBlocks(Drop(body, Least(ends) + 3))
        ELSE <<Head(str)>> \o CodeBlocks(Tail(str))

\* Line 293: one or more characters other than a backquote, between two.
InlineCode(str) == Delimited(str, <<Backquote>>, "<code>", "</code>", {Backquote})

\* Line 296: [text](url), text without a ], url without a ).
RECURSIVE Links(_)
Links(str) ==
    LET rest == Tail(str)
        n == IndexOf(rest, "]")
        text == Take(rest, n - 1)
        more == Drop(rest, n + 1)
        m == IndexOf(more, ")")
        url == Take(more, m - 1)
    IN  IF str = <<>> THEN <<>>
        ELSE IF /\ Head(str) = "["
                /\ "]" \in Range(rest)
                /\ n >= 2
                /\ StartsWith(Drop(rest, n), <<"(">>)
                /\ ")" \in Range(more)
                /\ m >= 2
        THEN <<"<a href=\"">> \o url \o <<"\">">> \o text \o <<"</a>">>
                \o Links(Drop(more, m))
        ELSE <<Head(str)>> \o Links(Tail(str))

\* Line 299: a line of three or more hyphens.
RuleLine(line) ==
    IF Len(line) >= 3 /\ \A i \in DOMAIN line : line[i] = "-" THEN <<"<hr>">> ELSE line

Rules(str) ==
    JoinWith([i \in DOMAIN Lines(str) |-> RuleLine(Lines(str)[i])], Newline)

\* The cells of a table line: split at |, stripped, the empty ones dropped.
Cells(line) ==
    LET parts == Split(line, "|")
        stripped == [i \in DOMAIN parts |-> StripChars(parts[i], Whitespace)]
    IN  SelectSeq(stripped, LAMBDA cell : cell # <<>>)

TableRow(line, open, close) ==
    [i \in DOMAIN Cells(line) |-> <<open>> \o Cells(line)[i] \o <<close>>]

\* Lines 317-323: a body line without cells gives no row.
BodyRow(line) ==
    IF Cells(line) = <<>> THEN <<>>
    ELSE <<<<"<tr>">>>> \o TableRow(line, "<td>", "</td>") \o <<<<"</tr>">>>>

convert_table(match) ==
    LET lines == Split(StripChars(match, Whitespace), "\n")
        body == [i \in 1..(Len(lines) - 2) |-> BodyRow(lines[i + 2])]
        result == <<<<"<table>">>, <<"<thead><tr>">>>>
                     \o TableRow(lines[1], "<th>", "</th>")
                     \o <<<<"</tr></thead>">>, <<"<tbody>">>>>
                     \o Chain(body)
                     \o <<<<"</tbody></table>">>>>
    IN  IF Len(lines) < 2 THEN match ELSE JoinWith(result, Newline)

\* The length of the match of one table row at the start of str, or 0: a
\* | , at least one character, and a | that ends the line, which ends
\* with a newline.
RowLen(str) ==
    IF /\ str # <<>>
       /\ Head(str) = "|"
       /\ "\n" \in Range(str)
       /\ IndexOf(str, "\n") >= 4
       /\ str[IndexOf(str, "\n") - 1] = "|"
    THEN IndexOf(str, "\n")
    ELSE 0

\* The length of the match of one or more table rows at the start of str,
\* or 0.
RECURSIVE TableLen(_)
TableLen(str) ==
    IF RowLen(str) = 0 THEN 0 ELSE RowLen(str) + TableLen(Drop(str, RowLen(str)))

\* Line 327
RECURSIVE Tables(_)
Tables(str) ==
    IF str = <<>> THEN <<>>
    ELSE IF TableLen(str) > 0
    THEN convert_table(Take(str, TableLen(str))) \o Tables(Drop(str, TableLen(str)))
    ELSE <<Head(str)>> \o Tables(Tail(str))

\* The length of the match of one list item at str, which begins a line,
\* or 0: whitespace (newlines too), a bullet, a space, the rest of the
\* line and its newline if it has one.
ItemLen(str) ==
    LET item == LStrip(str, Whitespace)
        ws == Len(str) - Len(item)
        text == Drop(item, 2)
    IN  IF /\ Len(item) >= 3
           /\ item[1] \in {"-", "*"}
           /\ item[2] = " "
           /\ item[3] # "\n"
        THEN IF "\n" \in Range(text) THEN ws + 2 + IndexOf(text, "\n")
             ELSE Len(str)
        ELSE 0

\* The length of the match of one or more list items at str, which begins
\* a line, or 0.
RECURSIVE ListLen(_)
ListLen(str) ==
    IF ItemLen(str) = 0 THEN 0
    ELSE IF str[ItemLen(str)] = "\n"
    THEN ItemLen(str) + ListLen(Drop(str, ItemLen(str)))
    ELSE ItemLen(str)

\* The item without its leading whitespace, bullet and space.
ItemText(item) ==
    LET bullet == LStrip(item, Whitespace)
    IN  IF Len(bullet) >= 2 /\ bullet[1] \in {"-", "*"} /\ bullet[2] = " "
        THEN Drop(bullet, 2) ELSE item

\* Lines 330-338
convert_ul(match) ==
    LET items == Split(StripChars(match, Whitespace), "\n")
        texts == SelectSeq([i \in DOMAIN items |-> ItemText(items[i])],
                           LAMBDA text : text # <<>>)
        result == <<<<"<ul>">>>>
                     \o [i \in DOMAIN texts |-> <<"<li>">> \o texts[i] \o <<"</li>">>]
                     \o <<<<"</ul>">>>>
    IN  JoinWith(result, Newline)

\* Line 340; bol: str begins a line.
RECURSIVE Lists(_, _)
Lists(str, bol) ==
    IF str = <<>> THEN <<>>
    ELSE IF bol /\ ListLen(str) > 0
    THEN convert_ul(Take(str, ListLen(str)))
            \o Lists(Drop(str, ListLen(str)), str[ListLen(str)] = "\n")
    ELSE <<Head(str)>> \o Lists(Tail(str), Head(str) = "\n")

\* Line 343: a line that is > , a space and a text.
QuoteLine(line) ==
    IF StartsWith(line, <<">", " ">>) /\ Len(line) > 2
    THEN <<"<blockquote>">> \o Drop(line, 2) \o <<"</blockquote>">>
    ELSE line

Blockquotes(str) ==
    JoinWith([i \in DOMAIN Lines(str) |-> QuoteLine(Lines(str)[i])], Newline)

\* The elements of the HTML that begin with <: the tags the passes insert.
LtElements ==
    { "<h1>", "</h1>", "<h2>", "</h2>", "<h3>", "</h3>", "<h4>", "</h4>",
      "<strong><em>", "</em></strong>", "<strong>", "</strong>", "<em>", "</em>",
      "<pre><code>", "</code></pre>", "<code>", "</code>", "<a href=\"", "</a>",
      "<hr>", "<table>", "<thead><tr>", "<th>", "</th>", "</tr></thead>",
      "<tbody>", "<tr>", "<td>", "</td>", "</tr>", "</tbody></table>",
      "<ul>", "<li>", "</li>", "</ul>", "<blockquote>", "</blockquote>",
      "<p>", "</p>", "<" }

\* The test startswith on the stripped line.
StartsWithLt(line) == line # <<>> /\ Head(line) \in LtElements

OpenP == <<"<p>">>
CloseP == <<"</p>">>

\* Variant of Paragraph: a line that starts with a tag does not end the
\* paragraph that is open.
RECURSIVE Paragraph_TagsInside(_, _)
Paragraph_TagsInside(lines, in_para) ==
    LET line == Head(lines)
        stripped == StripChars(line, Whitespace)
        closing == IF in_para THEN <<CloseP>> ELSE <<>>
        opening == IF in_para THEN <<>> ELSE <<OpenP>>
    IN  IF lines = <<>> THEN closing
        ELSE IF stripped = <<>>
        THEN closing \o <<<<>>>> \o Paragraph_TagsInside(Tail(lines), FALSE)
        ELSE IF StartsWithLt(stripped)
        THEN <<line>> \o Paragraph_TagsInside(Tail(lines), in_para)
        ELSE opening \o <<line>> \o Paragraph_TagsInside(Tail(lines), TRUE)

\* Lines 346-367: the loop over the lines, from the line at the head of
\* lines on, with the value in_para has there.
RECURSIVE Paragraph(_, _)
Paragraph(lines, in_para) ==
    LET line == Head(lines)
        stripped == StripChars(line, Whitespace)
        closing == IF in_para THEN <<CloseP>> ELSE <<>>
        opening == IF in_para THEN <<>> ELSE <<OpenP>>
    IN  IF lines = <<>> THEN closing
        ELSE IF stripped = <<>>
        THEN closing \o <<<<>>>> \o Paragraph(Tail(lines), FALSE)
        ELSE IF StartsWithLt(stripped)
        THEN closing \o <<line>> \o Paragraph(Tail(lines), FALSE)
        ELSE opening \o <<line>> \o Paragraph(Tail(lines), TRUE)

\* Lines 346-369
Paragraphs(str) == JoinWith(Paragraph(Lines(str), FALSE), Newline)

\* The HTML before the paragraphs are wrapped (lines 273-343).
BeforeParagraphs(md_content) ==
    Blockquotes(Lists(Tables(Rules(Links(InlineCode(CodeBlocks(
        Emphasis(Headers(Escape(md_content)))))))), TRUE))

simple_markdown_to_html(md_content) == Paragraphs(BeforeParagraphs(md_content))

----------------------------------------------------------------------------
(* The documents the renderer is applied to: up to MaxParts lines and      *)
(* fences in any order, and some documents of their own.                   *)

MaxParts == 3

FenceLine == <<Backquote, Backquote, Backquote, "\n">>
HeaderPart == <<"#", " ", "a", "\n">>
EmphasisPart == <<"*", "a", "*", "\n">>
TextLine == <<"a", "\n">>
EmptyLine == <<"\n">>
SpaceLine == <<" ", "\n">>
PipeLine == <<"|", " ", "A", " ", "|", " ", "B", " ", "|", "\n">>
ItemLine == <<"-", " ", "a", "\n">>

Parts ==
    {FenceLine, HeaderPart, EmphasisPart, TextLine, EmptyLine, SpaceLine,
     PipeLine, ItemLine}

TableSample == <<"A", " ", "|", " ", "B", "\n", "-", "-", "-", "|", "-", "-", "-", "\n", "1", " ", "|", " ", "2", "\n">>
PipedTable == <<"|", " ", "A", " ", "|", " ", "B", " ", "|", "\n", "|", "-", "-", "-", "|", "-", "-", "-", "|", "\n", "|", " ", "1", " ", "|", " ", "2", " ", "|", "\n">>
PlainParagraph == <<"a", " ", "<", " ", "b", " ", "&", " ", "c">>
ParagraphInFence == <<Backquote, Backquote, Backquote, "p", "y", "\n", "\n", "a", "\n", Backquote, Backquote, Backquote, "\n">>

Samples ==
    { TableSample, PipedTable, PlainParagraph, ParagraphInFence,
      <<"a">>, <<" ", "*", "a", "*", "\n", "b", "\n">>, <<"[", "a", "]", "(", "b", ")", " ", Backquote, "c", Backquote, "\n">>, <<"-", "-", "-", "\n">>, <<">", " ", "a", "\n">>,
      <<"#", "#", "#", "#", " ", "a", "\n", "#", "#", "#", " ", "b", "\n", "#", "#", " ", "c", "\n">>, <<"a", " ", "*", "*", "*", "b", "*", "*", "*", " ", "*", "*", "c", "*", "*">>, <<"-", " ", "a", "\n", "\n", "*", " ", "b", "\n", "c">>,
      <<"x", " ", "|", "a", "|", "\n", "|", "b", "|", "\n", "y">>, <<Backquote, Backquote, Backquote, "\n", "#", "#", " ", "a", "\n", Backquote, Backquote, Backquote>> }

Docs == {Chain(parts) : parts \in UNION {[1..n -> Parts] : n \in 0..MaxParts}} \cup Samples

MdInit ==
    /\ req \in {[op |-> "doc", data |-> doc] : doc \in Docs}
    /\ resp = [before |-> <<>>, html |-> <<>>]
    /\ clock = 0
    /\ kanban = NewBoard(clock)
    /\ adds = 0
    /\ pre = kanban
    /\ stored = {}
    /\ fs = NoFs
    /\ server = NoServer

Render ==
    /\ req.op = "doc"
    /\ req' = [op |-> "render", data |-> req.data]
    /\ resp' = [before |-> BeforeParagraphs(req.data),
                html |-> simple_markdown_to_html(req.data)]
    /\ UNCHANGED <<kanban, clock, adds, pre, stored, fs, server>>

MdNext == Render

MdSpec == MdInit /\ [][MdNext]_vars

----------------------------------------------------------------------------
(* Properties of the renderer.                                             *)

Rendered == req.op = "render"

PreOpen == "<pre><code>"
PreClose == "</code></pre>"

\* The texts that lie between an open element and the next close element.
RECURSIVE Enclosed(_, _, _)
Enclosed(html, open, close) ==
    LET rest == Drop(html, IndexOf(html, open))
    IN  IF open \notin Range(html) THEN <<>>
        ELSE IF close \notin Range(rest) THEN <<>>
        ELSE <<Take(rest, IndexOf(rest, close) - 1)>>
                \o Enclosed(Drop(rest, IndexOf(rest, close)), open, close)

HeadingTags == {"<h1>", "<h2>", "<h3>", "<h4>"}

\* C24: in the output of every document no heading element lies inside a
\* code block, between <pre><code> and </code></pre>: a line that begins
\* with one to four # and a space between two fences is not made a heading.
C24_NoHeadingInFence ==
    Rendered =>
        \A i \in DOMAIN Enclosed(resp.html, PreOpen, PreClose) :
            Range(Enclosed(resp.html, PreOpen, PreClose)[i]) \cap HeadingTags = {}

\* The contents of the fenced blocks of a document: what lies between a
\* line that is a fence and word characters, and the next fence.
RECURSIVE Fenced(_)
Fenced(doc) ==
    LET after == LStrip(Drop(doc, 3), WordChars)
        body == Drop(after, 1)
        ends == {m \in 0..Len(body) : StartsWith(Drop(body, m), Fence)}
    IN  IF doc = <<>> THEN <<>>
        ELSE IF StartsWith(doc, Fence) /\ StartsWith(after, Newline) /\ ends # {}
        THEN <<Take(body, Least(ends))>> \o Fenced(Drop(body, Least(ends) + 3))
        ELSE Fenced(Tail(doc))

\* C25: the code blocks of the output are the fenced blocks of the
\* document, in order, each with its content entity-escaped and otherwise
\* character for character.
C25_FencedContentVerbatim ==
    Rendered =>
        Enclosed(resp.html, PreOpen, PreClose)
            = [i \in DOMAIN Fenced(req.data) |-> Escape(Fenced(req.data)[i])]

\* The lines of a document; the newline that ends the last one starts no
\* other line.
DocLines(doc) ==
    IF doc # <<>> /\ doc[Len(doc)] = "\n"
    THEN Split(Take(doc, Len(doc) - 1), "\n")
    ELSE Split(doc, "\n")

\* A document that is one run of two or more lines that each contain a | .
PipeRun(doc) ==
    /\ Len(DocLines(doc)) >= 2
    /\ \A i \in DOMAIN DocLines(doc) : "|" \in Range(DocLines(doc)[i])

Count(html, element) == Cardinality({i \in DOMAIN html : html[i] = element})

\* C26: a document that is a run of two or more lines that each contain a
\* | gives exactly one <table>: its header cells are the trimmed cells of
\* line 1, line 2 is dropped and each further line is one body row of its
\* trimmed cells; A | B, ---|---, 1 | 2 gives header cells A, B and one row
\* with the cells 1, 2.
C26_PipeLinesAreOneTable ==
    (Rendered /\ PipeRun(req.data)) =>
        LET lines == DocLines(req.data)
            rows == [i \in 1..(Len(lines) - 2) |-> Cells(lines[i + 2])]
        IN  /\ Count(resp.html, "<table>") = 1
            /\ Enclosed(resp.html, "<th>", "</th>") = Cells(lines[1])
            /\ Count(resp.html, "<tr>") = Len(rows)
            /\ Enclosed(resp.html, "<td>", "</td>") = Chain(rows)

\* The lines the paragraph pass reads and the lines it writes.
LinesBefore == Lines(resp.before)
LinesAfter == Lines(resp.html)

Blank(line) == Range(line) \subseteq Whitespace

\* A line that starts with a tag, and one whose first character that is
\* not whitespace starts a tag.
StartsWithTag(line) == line # <<>> /\ Head(line) \in LtElements
TagAfterWhitespace(line) == ~Blank(line) /\ StartsWithTag(LStrip(line, Whitespace))

IsMarker(line) == line \in {OpenP, CloseP}

\* The markers strictly alternate, <p> first, and the last one is </p>.
MarkersAlternate(lines) ==
    LET markers == SelectSeq(lines, IsMarker)
    IN  /\ Len(markers) % 2 = 0
        /\ \A i \in DOMAIN markers : markers[i] = IF i % 2 = 1 THEN OpenP ELSE CloseP

\* Each maximal run of lines that are not blank and not tag lines (tags
\* holds the numbers of the tag lines) has one <p> before it and one </p>
\* after it, and there is no other marker.
RunsEnclosed(lines, tags) ==
    LET InRun(i) == i \in DOMAIN lines /\ ~Blank(lines[i]) /\ i \notin tags
        Passed(i) == i \in DOMAIN lines /\ ~InRun(i) /\ ~IsMarker(lines[i])
    IN  \A i \in DOMAIN lines :
            /\ InRun(i) => /\ InRun(i - 1) \/ (i > 1 /\ lines[i - 1] = OpenP)
                           /\ InRun(i + 1) \/ (i < Len(lines) /\ lines[i + 1] = CloseP)
            /\ lines[i] = OpenP => InRun(i + 1) /\ (i = 1 \/ Passed(i - 1))
            /\ lines[i] = CloseP => InRun(i - 1) /\ (i = Len(lines) \/ Passed(i + 1))

WithoutMarkers(lines) == SelectSeq(lines, LAMBDA line : ~IsMarker(line))

\* A paragraph of plain text: one line without Markdown syntax.
PlainText(doc) ==
    /\ ~Blank(doc)
    /\ Range(doc) \subseteq WordChars \cup {" ", "&", "<", ">"}
    /\ doc[1] # " " /\ doc[Len(doc)] # " "

OneParagraph(doc) == OpenP \o Newline \o Escape(doc) \o Newline \o CloseP

\* C27 as the spec states it: each maximal run of lines that are not blank
\* and do not start with a tag is enclosed by one <p> and one </p>; the
\* blank lines and the lines that start with a tag are passed through
\* unmodified; the markers alternate and the last paragraph is closed; a
\* plain paragraph gives exactly one <p> element around its escaped text.
C27_LinesPassedUnmodified ==
    Rendered =>
        /\ WithoutMarkers(LinesAfter) = LinesBefore
        /\ RunsEnclosed(LinesAfter, {i \in DOMAIN LinesAfter : StartsWithTag(LinesAfter[i])})
        /\ MarkersAlternate(LinesAfter)
        /\ PlainText(req.data) => resp.html = OneParagraph(req.data)

\* C27: each maximal run of lines that are not blank and whose first
\* character after leading whitespace starts no tag is enclosed by one <p>
\* and one </p>; a blank line (empty or of whitespace only) is emitted as
\* an empty line and a line whose first character after leading whitespace
\* starts a tag is passed through unmodified, and both close the run; the
\* markers alternate and the last paragraph is closed; a plain paragraph
\* gives exactly one <p> element around its escaped text.
C27_ParagraphMachine ==
    Rendered =>
        /\ WithoutMarkers(LinesAfter)
             = [i \in DOMAIN LinesBefore |->
                   IF Blank(LinesBefore[i]) THEN <<>> ELSE LinesBefore[i]]
        /\ RunsEnclosed(LinesAfter,
                        {i \in DOMAIN LinesAfter : TagAfterWhitespace(LinesAfter[i])})
        /\ MarkersAlternate(LinesAfter)
        /\ PlainText(req.data) => resp.html = OneParagraph(req.data)

\* A text line, a line of one space and a heading have been rendered: one
\* paragraph, an empty line, and the heading outside the paragraph.
C27_Witness ==
    /\ Rendered
    /\ req.data = TextLine \o SpaceLine \o HeaderPart
    /\ resp.html = <<"<p>", "\n", "a", "\n", "</p>", "\n", "\n", "<h1>", "a", "</h1>", "\n">>

----------------------------------------------------------------------------
(* GET /docs/<path>: serve_markdown on a tree of directories and files.    *)
(* A path of the tree is the sequence of its names from the root of the    *)
(* file system; PROJECT_ROOT is one of its directories.                    *)

PROJECT_ROOT == <<<<"r", "e", "p", "o">>>>
DocsName == <<"d", "o", "c", "s">>
DocsRoot == Append(PROJECT_ROOT, DocsName)
DotDot == <<".", ".">>
Slash == <<"/">>
DotMd == <<".", "m", "d">>
DefaultTitle == <<"S", "h", "e", "b", "a", "n", "g", "!", " ", "D", "o", "c", "u", "m", "e", "n", "t", "a", "t", "i", "o", "n">>

EndsWith(str, suffix) ==
    Len(str) >= Len(suffix)
        /\ SubSeq(str, Len(str) - Len(suffix) + 1, Len(str)) = suffix

\* The directory above a directory; the root is above itself.
Parent(path) == IF path = <<>> THEN <<>> ELSE Take(path, Len(path) - 1)

\* The file or directory that the names lead to from the directory at, as
\* the operating system resolves them: .. is the directory above, every
\* name but the last must be a directory, every name must exist.
RECURSIVE Walk(_, _, _)
Walk(f, at, names) ==
    LET next == IF Head(names) = DotDot THEN Parent(at) ELSE Append(at, Head(names))
    IN  IF names = <<>> THEN [found |-> TRUE, path |-> at]
        ELSE IF ~IsDir(f, at) \/ ~Exists(f, next) THEN [found |-> FALSE, path |-> at]
        ELSE Walk(f, next, Tail(names))

\* PROJECT_ROOT / filepath: the empty names of the path are dropped.
FullPath(f, filepath) ==
    Walk(f, PROJECT_ROOT, SelectSeq(Split(filepath, "/"), LAMBDA name : name # <<>>))

\* Lines 733-736: the text of the first line that is # , a space and a text.
RECURSIVE FirstHeading(_)
FirstHeading(lines) ==
    IF lines = <<>> THEN DefaultTitle
    ELSE IF StartsWith(Head(lines), <<"#", " ">>) /\ Len(Head(lines)) > 2
    THEN Drop(Head(lines), 2)
    ELSE FirstHeading(Tail(lines))

Title(md_content) == FirstHeading(Split(md_content, "\n"))

\* Lines 721-773
serve_markdown(f, filepath) ==
    IF ~FullPath(f, filepath).found \/ ~EndsWith(filepath, DotMd)
    THEN Error(404, "Document not found")
    ELSE LET md_content == f.files[FullPath(f, filepath).path]
         IN  Ok([title |-> Title(md_content),
                 breadcrumb |-> Tail(Split(filepath, "/")),
                 html |-> simple_markdown_to_html(md_content)])

\* The names of the requests, and the longest path in names.
MaxSegs == 3

AMd == <<"a", ".", "m", "d">>
BMd == <<"b", ".", "m", "d">>
ReadmeMd == <<"R", "E", "A", "D", "M", "E", ".", "m", "d">>
SecretMd == <<"s", ".", "m", "d">>
ATxt == <<"a", ".", "t", "x", "t">>
SubName == <<"s", "u", "b">>

DocNames == {AMd, BMd, ReadmeMd, SecretMd, ATxt, SubName, DotDot, DocsName}

DocPaths == {JoinWith(names, Slash) : names \in UNION {[1..n -> DocNames] : n \in 0..MaxSegs}}

\* The tree: docs/a.md, docs/a.txt and docs/sub/b.md under the
\* documentation root, README.md beside it, s.md outside PROJECT_ROOT.
DocDisk ==
    [dirs |-> {<<>>, PROJECT_ROOT, DocsRoot, Append(DocsRoot, SubName)},
     files |-> [p \in {Append(DocsRoot, AMd), Append(DocsRoot, ATxt),
                       Append(Append(DocsRoot, SubName), BMd),
                       Append(PROJECT_ROOT, ReadmeMd), <<SecretMd>>} |->
                  IF p = Append(DocsRoot, AMd) THEN HeaderPart \o TextLine
                  ELSE IF p = Append(PROJECT_ROOT, ReadmeMd) THEN HeaderPart
                  ELSE IF p = <<SecretMd>> THEN EmphasisPart
                  ELSE TextLine],
     pointer |-> [exists |-> FALSE, text |-> <<>>],
     templates |-> {}]

DocInit ==
    /\ req \in {[op |-> "request", path |-> doc_path] : doc_path \in DocPaths}
    /\ resp = [status |-> 0, body |-> [error |-> ""]]
    /\ fs = DocDisk
    /\ clock = 0
    /\ kanban = NewBoard(clock)
    /\ adds = 0
    /\ pre = fs
    /\ stored = {}
    /\ server = NoServer

\* Lines 390-392: GET /docs/<doc_path>
GetDoc ==
    /\ req.op = "request"
    /\ req' = [op |-> "docs", path |-> req.path]
    /\ resp' = serve_markdown(fs, DocsName \o Slash \o req.path)
    /\ UNCHANGED <<kanban, clock, adds, pre, stored, fs, server>>

DocNext == GetDoc

DocSpec == DocInit /\ [][DocNext]_vars

\* The path of a request resolves to a file that exists, is below the
\* documentation root and has a name that ends with .md .
ResolvesToDoc(f, doc_path) ==
    LET target == FullPath(f, DocsName \o Slash \o doc_path)
    IN  /\ target.found
        /\ target.path \in DOMAIN f.files
        /\ StartsWith(target.path, DocsRoot)
        /\ EndsWith(target.path[Len(target.path)], DotMd)

\* C23: GET /docs/<path> is answered 404 for every path that does not
\* resolve to an existing .md file under the documentation root, a path
\* with .. that leads to an .md file outside the root included.
C23_OutsideDocsRootIs404 ==
    (req.op = "docs" /\ ~ResolvesToDoc(fs, req.path)) => resp.status = 404

====
